---- MODULE Spec2Model ----
(***************************************************************************)
(* homebridge-atag-one: the ATAGOneAccessory of homebridge_atag_plugin.js. *)
(* One accessory object, the child processes it spawns, its timers and the *)
(* characteristic updates and log lines it produces.                       *)
(*                                                                         *)
(* Temperatures and pressures are in tenths (20 degrees C is 200, 0.5 is   *)
(* 5, 1.0 bar is 10).  JavaScript runs handlers to completion, and a       *)
(* promise continuation runs in the microtask queue of the event that      *)
(* settled the promise, so every action below is one macrotask: a          *)
(* constructor call, a timer callback, a host request up to its first      *)
(* pending await, or a child's close/error event with the continuation     *)
(* that awaits it.                                                         *)
(***************************************************************************)
EXTENDS Integers, Sequences, FiniteSets, Bags, TLC

VARIABLES
    config,                      \* the config object given to the constructor
    phase,                       \* "new", "threw" (constructor threw), "running"
    currentTemperature,
    targetTemperature,
    outsideTemperature,
    dhwTemperature,
    waterPressure,
    flameActive,
    currentHeatingCoolingState,
    targetHeatingCoolingState,
    isUpdating,
    children,                    \* bag of child processes in flight
    intervalInstalled,           \* setInterval of startPolling is armed
    followUps,                   \* pending setTimeout callbacks of setTargetTemperature
    published,                   \* characteristic -> value of its last updateCharacteristic
    pubs,                        \* updateCharacteristic calls of the last step, in order
    logs,                        \* log calls of the last step, in order
    thrown                       \* what the last step threw to its caller, or "none"

snapshot ==
    <<currentTemperature, targetTemperature, outsideTemperature, dhwTemperature,
      waterPressure, flameActive, currentHeatingCoolingState>>

vars ==
    <<config, phase, currentTemperature, targetTemperature, outsideTemperature,
      dhwTemperature, waterPressure, flameActive, currentHeatingCoolingState,
      targetHeatingCoolingState, isUpdating, children, intervalInstalled,
      followUps, published, pubs, logs, thrown>>

----------------------------------------------------------------------------
(* Bounds *)

\* host requests that may be outstanding (set commands in flight plus
\* follow-up timeouts pending)
MaxPending == 1

\* child processes in flight the model follows
MaxChildren == 3

----------------------------------------------------------------------------
(* Values *)

NoValue == "undefined"

\* the result of parseFloat on text with no numeric prefix
NaN == -9999

CurrentOFF == 0
CurrentHEAT == 1
TargetOFF == 0
TargetHEAT == 1
TargetAUTO == 3
LEAK_NOT_DETECTED == 0
LEAK_DETECTED == 1

HostRequired == "Host is required for local mode"
CredentialsRequired == "Email and password are required for remote mode"
SERVICE_COMMUNICATION_FAILURE == "SERVICE_COMMUNICATION_FAILURE"

\* JavaScript truthiness of a config string
Truthy(v) == v # NoValue /\ v # ""

\* a < b on numbers, false when either is NaN
Less(a, b) == a # NaN /\ b # NaN /\ a < b

\* a - b on numbers, NaN when either is NaN
Minus(a, b) == IF a = NaN \/ b = NaN THEN NaN ELSE a - b

----------------------------------------------------------------------------
(* Configuration and the constructor's validation *)

Modes == {NoValue, "local", "remote", "cloud"}
Hosts == {NoValue, "192.168.1.20"}
Emails == {NoValue, "user@example.com"}
Passwords == {NoValue, "yourpassword"}

\* the optional services: none, all, or one of them
Exposures ==
    {<<FALSE, FALSE, FALSE>>, <<TRUE, TRUE, TRUE>>}

\* an optional number: <<>> is null or absent, <<t>> is the number t
Null == <<>>

\* Two configurations that pass validation: the default (local) mode with a
\* host, every optional service and the documented pollInterval of 60, and
\* an unknown mode with no credentials, no optional service and no
\* pollInterval.
LocalConfig ==
    [mode |-> NoValue, host |-> "192.168.1.20", email |-> NoValue,
     password |-> NoValue, pollInterval |-> <<60>>,
     exposeOutsideTemperature |-> TRUE,
     exposeWaterPressure |-> TRUE, exposeDHWTemperature |-> TRUE]

CloudConfig ==
    [mode |-> "cloud", host |-> NoValue, email |-> NoValue,
     password |-> NoValue, pollInterval |-> Null,
     exposeOutsideTemperature |-> FALSE,
     exposeWaterPressure |-> FALSE, exposeDHWTemperature |-> FALSE]

PollConfigs == {LocalConfig, CloudConfig}

AllConfigs ==
    {[mode |-> m, host |-> h, email |-> e, password |-> p, pollInterval |-> Null,
      exposeOutsideTemperature |-> x[1], exposeWaterPressure |-> x[2],
      exposeDHWTemperature |-> x[3]] :
        m \in Modes, h \in Hosts, e \in Emails, p \in Passwords, x \in Exposures}
    \cup PollConfigs

\* this.mode = config.mode || 'local'
Mode(c) == IF Truthy(c.mode) THEN c.mode ELSE "local"

\* this.pollInterval = config.pollInterval || 60000
pollInterval(c) ==
    IF c.pollInterval # Null /\ c.pollInterval[1] # 0
    THEN c.pollInterval[1] ELSE 60000

ValidationErrorBothMissing(c) ==
    IF Mode(c) = "local" /\ ~Truthy(c.host) THEN HostRequired
    ELSE IF Mode(c) = "remote" /\ (~Truthy(c.email) /\ ~Truthy(c.password))
         THEN CredentialsRequired
    ELSE "none"

\* the Error the constructor throws for config c, or "none"
ValidationError(c) ==
    IF Mode(c) = "local" /\ ~Truthy(c.host) THEN HostRequired
    ELSE IF Mode(c) = "remote" /\ (~Truthy(c.email) \/ ~Truthy(c.password))
         THEN CredentialsRequired
    ELSE "none"

JarPath == "atag-one.jar"

ArgsWithoutTemperature(c, setTemp) ==
    <<"-jar", JarPath>>
    \o (IF Mode(c) = "local" THEN <<"-d", c.host>>
        ELSE <<"-r", "-e", c.email, "-p", c.password>>)

\* the argument list executeATAGCommand builds
Args(c, setTemp) ==
    <<"-jar", JarPath>>
    \o (IF Mode(c) = "local" THEN <<"-d", c.host>>
        ELSE <<"-r", "-e", c.email, "-p", c.password>>)
    \o (IF setTemp # Null THEN <<"-t", ToString(setTemp[1])>> ELSE <<>>)

\* the command line of the child spawn starts: an undefined element of args
\* is passed on as the text "undefined"
ArgText(a) == IF a = NoValue THEN "undefined" ELSE a

CommandLine(args) == [i \in 1..Len(args) |-> ArgText(args[i])]

----------------------------------------------------------------------------
(* What a child process can do *)

\* how a child ends: 'close' with an exit code ("null" when it was killed
\* by a signal, as the spawn timeout does), or 'error' when it could not start
Terminations ==
    {[event |-> "close", code |-> "0"], [event |-> "close", code |-> "1"],
     [event |-> "close", code |-> "null"], [event |-> "error", code |-> "null"]}

\* JSON values: a number, a string (num is the value of its longest numeric
\* prefix, NaN when it has none; rest is what follows the prefix), or null
Undefined == [type |-> "undefined", num |-> NaN, rest |-> ""]
JNumber(n) == [type |-> "number", num |-> n, rest |-> ""]
JString(n, r) == [type |-> "string", num |-> n, rest |-> r]
JNull == [type |-> "null", num |-> NaN, rest |-> ""]

NumericKeys ==
    {"roomTemperature", "targetTemperature", "outsideTemperature",
     "dhwWaterTemperature", "chWaterPressure"}

\* the decoded objects the model draws from: every combination of the
\* thermostat keys without the sensor keys, and every combination of the
\* sensor keys with one reading of the thermostat keys
ThermostatData ==
    [roomTemperature : {Undefined, JNumber(190), JNull},
     targetTemperature : {Undefined, JNumber(210)},
     outsideTemperature : {Undefined},
     dhwWaterTemperature : {Undefined},
     chWaterPressure : {Undefined},
     flameStatus : {NoValue, "Off", "On"}]

SensorData ==
    [roomTemperature : {JNumber(190)},
     targetTemperature : {JNumber(210)},
     outsideTemperature : {Undefined, JString(50, "")},
     dhwWaterTemperature : {Undefined, JNumber(550)},
     chWaterPressure : {Undefined, JString(15, " bar")},
     flameStatus : {"Off"}]

AllData == ThermostatData \cup SensorData

NoData ==
    [roomTemperature |-> Undefined, targetTemperature |-> Undefined,
     outsideTemperature |-> Undefined, dhwWaterTemperature |-> Undefined,
     chWaterPressure |-> Undefined, flameStatus |-> NoValue]

SampleData ==
    [roomTemperature |-> JNumber(190), targetTemperature |-> JNumber(210),
     outsideTemperature |-> JString(50, ""), dhwWaterTemperature |-> JNumber(550),
     chWaterPressure |-> JString(15, " bar"), flameStatus |-> "Off"]

\* The text of an output, reduced to what the extraction pattern reads:
\* "{" and "}", " " for white space, "x" for any run of other characters.
FlatText == <<"x", " ", "{", "x", "}", " ">>
NestedText == <<"{", "x", "{", "x", "}", "x", "}">>
DeepText == <<"{", "x", "{", "{", "x", "}", "}", "}">>
NoObjectTexts ==
    {<<>>, <<"x">>, <<"{", "x", "}", " ", "x">>, <<"x", "{", "x">>}

\* stdout of a child: its text, whether the text the pattern captures is
\* well-formed JSON, and the object it then decodes to
Outputs ==
    [text : {FlatText}, decodes : {TRUE}, data : AllData]
    \cup [text : {NestedText}, decodes : {TRUE}, data : {SampleData}]
    \cup [text : {FlatText, DeepText} \cup NoObjectTexts, decodes : {FALSE},
          data : {NoData}]
    \cup [text : {DeepText}, decodes : {TRUE}, data : {SampleData}]

----------------------------------------------------------------------------
(* parseATAGData *)

\* The pattern /(\{[^{}]*(?:\{[^{}]*\}[^{}]*)*\})\s*$/s read from position i on,
\* as the automaton it is: "outer" after the opening brace, "inner" inside a
\* nested pair of braces, "closed" after the closing brace.
RECURSIVE Accepts(_, _, _)
Accepts(text, i, st) ==
    IF i > Len(text) THEN st = "closed"
    ELSE CASE st = "outer" ->
                IF text[i] = "{" THEN Accepts(text, i + 1, "inner")
                ELSE IF text[i] = "}" THEN Accepts(text, i + 1, "closed")
                ELSE Accepts(text, i + 1, "outer")
           [] st = "inner" ->
                IF text[i] = "{" THEN FALSE
                ELSE IF text[i] = "}" THEN Accepts(text, i + 1, "outer")
                ELSE Accepts(text, i + 1, "inner")
           [] OTHER ->
                text[i] = " " /\ Accepts(text, i + 1, "closed")

\* where the leftmost match of the pattern starts, 0 when there is none
MatchStart(text) ==
    LET starts == {i \in 1..Len(text) :
                     text[i] = "{" /\ Accepts(text, i + 1, "outer")}
    IN IF starts = {} THEN 0
       ELSE CHOOSE i \in starts : \A j \in starts : i <= j

\* output.match(...): TRUE when the pattern matches
jsonMatch(output) == MatchStart(output.text) # 0

\* parseFloat of a JSON value
parseFloat(v) ==
    CASE v.type = "number" -> v.num
      [] v.type = "string" -> v.num
      [] OTHER -> NaN

\* if (data.key !== undefined) this.field = parseFloat(data.key)
FieldAfterUnchecked(v, old) == parseFloat(v)
FieldAfter(v, old) == IF v # Undefined THEN parseFloat(v) ELSE old

ParseErrorSwallowed(output) == "none"

\* the error parseATAGData throws on this output, or "none"
ParseError(output) ==
    IF ~jsonMatch(output) THEN "No JSON data found in output"
    ELSE IF ~output.decodes THEN "SyntaxError"
    ELSE "none"

parseATAGDataWholesale(data) ==
    LET cur == FieldAfter(data.roomTemperature, 200)
        tgt == FieldAfter(data.targetTemperature, 200)
        flame == data.flameStatus \notin {NoValue, "Off"}
    IN [currentTemperature |-> cur,
        targetTemperature |-> tgt,
        outsideTemperature |-> FieldAfter(data.outsideTemperature, 0),
        dhwTemperature |-> FieldAfter(data.dhwWaterTemperature, 0),
        waterPressure |-> FieldAfter(data.chWaterPressure, 0),
        flameActive |-> flame,
        currentHeatingCoolingState |->
            IF flame THEN CurrentHEAT
            ELSE IF Less(cur, Minus(tgt, 5)) THEN CurrentHEAT
            ELSE CurrentOFF]

parseATAGDataFlameOnly(data) ==
    LET flame == IF data.flameStatus # NoValue
                 THEN data.flameStatus # "Off" ELSE flameActive
    IN [currentTemperature |-> FieldAfter(data.roomTemperature, currentTemperature),
        targetTemperature |-> FieldAfter(data.targetTemperature, targetTemperature),
        outsideTemperature |-> FieldAfter(data.outsideTemperature, outsideTemperature),
        dhwTemperature |-> FieldAfter(data.dhwWaterTemperature, dhwTemperature),
        waterPressure |-> FieldAfter(data.chWaterPressure, waterPressure),
        flameActive |-> flame,
        currentHeatingCoolingState |->
            IF data.flameStatus = NoValue THEN currentHeatingCoolingState
            ELSE IF flame THEN CurrentHEAT
            ELSE CurrentOFF]

\* the snapshot after parseATAGData has run to its end on a decoded object
parseATAGData(data) ==
    LET cur == FieldAfter(data.roomTemperature, currentTemperature)
        tgt == FieldAfter(data.targetTemperature, targetTemperature)
        flame == IF data.flameStatus # NoValue
                 THEN data.flameStatus # "Off" ELSE flameActive
    IN [currentTemperature |-> cur,
        targetTemperature |-> tgt,
        outsideTemperature |-> FieldAfter(data.outsideTemperature, outsideTemperature),
        dhwTemperature |-> FieldAfter(data.dhwWaterTemperature, dhwTemperature),
        waterPressure |-> FieldAfter(data.chWaterPressure, waterPressure),
        flameActive |-> flame,
        currentHeatingCoolingState |->
            IF data.flameStatus = NoValue THEN currentHeatingCoolingState
            ELSE IF flame THEN CurrentHEAT
            ELSE IF Less(cur, Minus(tgt, 5)) THEN CurrentHEAT
            ELSE CurrentOFF]

----------------------------------------------------------------------------
(* updateHomeKitCharacteristics *)

Characteristics ==
    {"CurrentTemperature", "TargetTemperature", "CurrentHeatingCoolingState",
     "outside.CurrentTemperature", "pressure.LeakDetected",
     "dhw.CurrentTemperature"}

Update(c, v) == [characteristic |-> c, value |-> v]

updateHomeKitCharacteristicsWithoutTarget(s) ==
    <<Update("CurrentTemperature", s.currentTemperature),
      Update("CurrentHeatingCoolingState", s.currentHeatingCoolingState)>>

\* the updateCharacteristic calls made for snapshot s, in order
updateHomeKitCharacteristics(s) ==
    <<Update("CurrentTemperature", s.currentTemperature),
      Update("TargetTemperature", s.targetTemperature),
      Update("CurrentHeatingCoolingState", s.currentHeatingCoolingState)>>
    \o (IF config.exposeOutsideTemperature
        THEN <<Update("outside.CurrentTemperature", s.outsideTemperature)>>
        ELSE <<>>)
    \o (IF config.exposeWaterPressure
        THEN <<Update("pressure.LeakDetected",
                      IF Less(s.waterPressure, 10) THEN LEAK_DETECTED
                      ELSE LEAK_NOT_DETECTED)>>
        ELSE <<>>)
    \o (IF config.exposeDHWTemperature
        THEN <<Update("dhw.CurrentTemperature", s.dhwTemperature)>>
        ELSE <<>>)

\* what the onGet handler of LeakDetected returns (the characteristic exists
\* when config.exposeWaterPressure is set)
LeakDetected ==
    IF Less(waterPressure, 10) THEN LEAK_DETECTED ELSE LEAK_NOT_DETECTED

\* the last value of every characteristic after the calls in ups
RECURSIVE Apply(_, _)
Apply(pub, ups) ==
    IF ups = <<>> THEN pub
    ELSE LET u == Head(ups)
             dom == DOMAIN pub \cup {u.characteristic}
         IN Apply([c \in dom |-> IF c = u.characteristic THEN u.value ELSE pub[c]],
                  Tail(ups))

----------------------------------------------------------------------------
(* Log lines *)

Log(level, msg) == [level |-> level, msg |-> msg]

Skipping == Log("debug", "Update already in progress, skipping")
Executing == Log("debug", "Executing")
UpdateFailed == Log("error", "Failed to update ATAG data")
ParseFailed == Log("error", "Failed to parse ATAG data")
RawOutput == Log("debug", "Raw output")
UpdatedData == Log("debug", "Updated data")
SettingTemperature == Log("info", "Setting target temperature")
SettingState == Log("info", "Setting target heating/cooling state")
SetFailed == Log("error", "Failed to set target temperature")
Initialized == Log("info", "ATAG One Thermostat initialized")

Logged(l) == \E i \in 1..Len(logs) : logs[i] = l

----------------------------------------------------------------------------
(* The accessory *)

Snapshot ==
    [currentTemperature |-> currentTemperature,
     targetTemperature |-> targetTemperature,
     outsideTemperature |-> outsideTemperature,
     dhwTemperature |-> dhwTemperature,
     waterPressure |-> waterPressure,
     flameActive |-> flameActive,
     currentHeatingCoolingState |-> currentHeatingCoolingState]

\* A child process with the call that awaits it: the awaiting function, its
\* temperature argument, the arguments of the command, and for a set (to
\* state what it leaves unchanged) the snapshot target temperature when it
\* was requested.
PollChild == [awaiter |-> "updateATAGData", temperature |-> Null,
              args |-> CommandLine(Args(config, Null)), before |-> Null]
SetChild(t) == [awaiter |-> "setTargetTemperature", temperature |-> <<t>>,
                args |-> CommandLine(Args(config, <<t>>)),
                before |-> <<targetTemperature>>]

PollChildren == {ch \in BagToSet(children) : ch.awaiter = "updateATAGData"}
SetChildren == {ch \in BagToSet(children) : ch.awaiter = "setTargetTemperature"}
InFlight == BagCardinality(children)
SetsInFlight ==
    BagCardinality([ch \in SetChildren |-> children[ch]])

\* the values the host sends to the TargetTemperature onSet handler
SetTemps == {185}

\* the values the host sends to the TargetHeatingCoolingState onSet handler
SetStates == {TargetAUTO}

Init ==
    /\ config \in AllConfigs
    /\ phase = "new"
    /\ currentTemperature = 200
    /\ targetTemperature = 200
    /\ outsideTemperature = 0
    /\ dhwTemperature = 0
    /\ waterPressure = 0
    /\ flameActive = FALSE
    /\ currentHeatingCoolingState = CurrentOFF
    /\ targetHeatingCoolingState = TargetAUTO
    /\ isUpdating = FALSE
    /\ children = EmptyBag
    /\ intervalInstalled = FALSE
    /\ followUps = 0
    /\ published = << >>
    /\ pubs = << >>
    /\ logs = << >>
    /\ thrown = "none"

\* if (this.isUpdating) return
GuardOpen == FALSE
Guard == isUpdating

\* finally { this.isUpdating = false }: isUpdating after a poll has ended
GuardKeptOnFailure(failed) == failed
GuardAfter(failed) == FALSE

\* updateATAGData up to its await.
\* said, after: the log lines of the calling handler before and after the call.
updateATAGData(said, after) ==
    /\ pubs' = << >>
    /\ thrown' = "none"
    /\ UNCHANGED <<snapshot, published>>
    /\ IF Guard
       THEN /\ logs' = said \o <<Skipping>> \o after
            /\ UNCHANGED <<isUpdating, children>>
       ELSE /\ isUpdating' = TRUE
            /\ children' = children (+) SetToBag({PollChild})
            /\ logs' = said \o <<Executing>> \o after

\* new ATAGOneAccessory(log, config, api)
Construct ==
    /\ phase = "new"
    /\ IF ValidationError(config) # "none"
       THEN /\ phase' = "threw"
            /\ thrown' = ValidationError(config)
            /\ UNCHANGED <<config, snapshot, targetHeatingCoolingState, isUpdating,
                           children, intervalInstalled, followUps, published,
                           pubs, logs>>
       ELSE /\ phase' = "running"
            /\ updateATAGData(<< >>, <<Initialized>>)
            /\ intervalInstalled' = TRUE
            /\ UNCHANGED <<config, targetHeatingCoolingState, followUps>>

\* the delay, in milliseconds, startPolling hands to setInterval
intervalDelay == pollInterval(config)

\* the setInterval callback of startPolling
TimerTick ==
    /\ phase = "running"
    /\ intervalInstalled
    /\ InFlight < MaxChildren
    /\ updateATAGData(<< >>, << >>)
    /\ UNCHANGED <<config, phase, targetHeatingCoolingState, intervalInstalled,
                   followUps>>

\* the setTimeout callback of setTargetTemperature
FollowUpFires ==
    /\ phase = "running"
    /\ followUps > 0
    /\ InFlight < MaxChildren
    /\ followUps' = followUps - 1
    /\ updateATAGData(<< >>, << >>)
    /\ UNCHANGED <<config, phase, targetHeatingCoolingState, intervalInstalled>>

\* TargetHeatingCoolingState onSet
SetTargetHeatingCoolingState ==
    /\ phase = "running"
    /\ InFlight < MaxChildren
    /\ \E value \in SetStates : targetHeatingCoolingState' = value
    /\ updateATAGData(<<SettingState>>, << >>)
    /\ UNCHANGED <<config, phase, intervalInstalled, followUps>>

\* child.on('close') resolves on code 0; any other close, and 'error', reject
ResolvesOnAnyClose(t) == t.event = "close"
Resolves(t) == t.event = "close" /\ t.code = "0"

\* setTimeout calls setTargetTemperature makes once its command has ended
ScheduledAlways(ok) == 1
ScheduledTwice(ok) == IF ok THEN 2 ELSE 0
Scheduled(ok) == IF ok THEN 1 ELSE 0

\* TargetTemperature onSet, up to the await in setTargetTemperature
SetTargetTemperatureRequest ==
    /\ phase = "running"
    /\ SetsInFlight + followUps < MaxPending
    /\ InFlight < MaxChildren
    /\ pubs' = << >>
    /\ \E temperature \in SetTemps :
         children' = children (+) SetToBag({SetChild(temperature)})
    /\ logs' = <<SettingTemperature, Executing>>
    /\ thrown' = "none"
    /\ UNCHANGED <<config, phase, snapshot, targetHeatingCoolingState, isUpdating,
                   intervalInstalled, followUps, published>>

\* the output of a child whose promise rejects is never read
Unread == [text |-> << >>, decodes |-> FALSE, data |-> NoData]

\* the child of a poll ends as t with stdout output: the rest of
\* updateATAGData
PollChildEndsWith(t, output) ==
    /\ \E ch \in PollChildren : children' = children (-) SetToBag({ch})
    /\ thrown' = "none"
    /\ IF Resolves(t)
       THEN IF ParseError(output) = "none"
            THEN LET s == parseATAGData(output.data) IN
                 /\ currentTemperature' = s.currentTemperature
                 /\ targetTemperature' = s.targetTemperature
                 /\ outsideTemperature' = s.outsideTemperature
                 /\ dhwTemperature' = s.dhwTemperature
                 /\ waterPressure' = s.waterPressure
                 /\ flameActive' = s.flameActive
                 /\ currentHeatingCoolingState' = s.currentHeatingCoolingState
                 /\ pubs' = updateHomeKitCharacteristics(s)
                 /\ published' = Apply(published, updateHomeKitCharacteristics(s))
                 /\ logs' = <<UpdatedData>>
                 /\ isUpdating' = GuardAfter(FALSE)
            ELSE /\ logs' = <<ParseFailed, RawOutput, UpdateFailed>>
                 /\ pubs' = << >>
                 /\ isUpdating' = GuardAfter(TRUE)
                 /\ UNCHANGED <<snapshot, published>>
       ELSE /\ logs' = <<UpdateFailed>>
            /\ pubs' = << >>
            /\ isUpdating' = GuardAfter(TRUE)
            /\ UNCHANGED <<snapshot, published>>
    /\ UNCHANGED <<config, phase, targetHeatingCoolingState, intervalInstalled,
                   followUps>>

PollChildEnds ==
    \E t \in Terminations :
      \E output \in (IF Resolves(t) THEN Outputs ELSE {Unread}) :
        PollChildEndsWith(t, output)

\* the child ch of a set-temperature command ends as t: the rest of
\* setTargetTemperature
SetChildEndsWith(ch, t) ==
    /\ ch \in SetChildren
    /\ children' = children (-) SetToBag({ch})
    /\ IF Resolves(t)
       THEN /\ targetTemperature' = ch.temperature[1]
            /\ pubs' = <<Update("TargetTemperature", ch.temperature[1])>>
            /\ published' =
                 Apply(published, <<Update("TargetTemperature", ch.temperature[1])>>)
            /\ followUps' = followUps + Scheduled(TRUE)
            /\ logs' = << >>
            /\ thrown' = "none"
       ELSE /\ logs' = <<SetFailed>>
            /\ pubs' = << >>
            /\ thrown' = SERVICE_COMMUNICATION_FAILURE
            /\ followUps' = followUps + Scheduled(FALSE)
            /\ UNCHANGED <<targetTemperature, published>>
    /\ UNCHANGED <<config, phase, currentTemperature, outsideTemperature,
                   dhwTemperature, waterPressure, flameActive,
                   currentHeatingCoolingState, targetHeatingCoolingState,
                   isUpdating, intervalInstalled>>

SetChildEnds ==
    \E ch \in SetChildren : \E t \in Terminations : SetChildEndsWith(ch, t)

Next ==
    \/ Construct
    \/ TimerTick
    \/ FollowUpFires
    \/ SetTargetHeatingCoolingState
    \/ SetTargetTemperatureRequest
    \/ PollChildEnds
    \/ SetChildEnds

Spec == Init /\ [][Next]_vars

\* The same accessory under the two configurations of PollConfigs.
PollInit == Init /\ config \in PollConfigs

PollSpec == PollInit /\ [][Next]_vars

\* spawn is given a timeout: a child that has not ended when it expires is
\* killed, and its close event follows with code null.
Killed == [event |-> "close", code |-> "null"]

PollChildKilled == PollChildEndsWith(Killed, Unread)

\* A poll's child that stays in flight is eventually killed by that timeout.
FairSpec == PollSpec /\ WF_vars(PollChildKilled)

\* A timeout that setTargetTemperature has set fires.
TimerSpec == PollSpec /\ WF_vars(FollowUpFires)

----------------------------------------------------------------------------
(* Claims *)

Exit0 == [event |-> "close", code |-> "0"]
Failures == Terminations \ {Exit0}

\* a complete reading, as a child prints it
Reading == [text |-> FlatText, decodes |-> TRUE, data |-> SampleData]

PollsInFlight ==
    BagCardinality([ch \in PollChildren |-> children[ch]])

\* the handlers that call updateATAGData
PollTrigger ==
    Construct \/ TimerTick \/ FollowUpFires \/ SetTargetHeatingCoolingState

\* C1 (as claimed): at most one external process spawned by
\* executeATAGCommand is in flight at any time.
C1_AtMostOneProcess == InFlight <= 1

\* C2: a trigger of updateATAGData that arrives while a poll is in flight
\* (isUpdating is true) spawns no process, changes no snapshot field,
\* publishes nothing and leaves the guard held.
C2_OverlappingTriggerIsNoOp ==
    [][(isUpdating /\ PollTrigger)
       => /\ children' = children
          /\ snapshot' = snapshot
          /\ published' = published
          /\ pubs' = << >>
          /\ isUpdating'
          /\ thrown' = "none"]_vars

C2_Witness ==
    /\ isUpdating
    /\ PollsInFlight = 1
    /\ logs = <<Skipping>>

\* C3 (as claimed): when a set-temperature command fails, the handler raises
\* SERVICE_COMMUNICATION_FAILURE, the snapshot target temperature then equals
\* its value when the set was requested, and nothing is published for it.
C3_FailedSetLeavesTarget ==
    [][\A ch \in SetChildren : \A t \in Failures :
         SetChildEndsWith(ch, t)
         => /\ thrown' = SERVICE_COMMUNICATION_FAILURE
            /\ targetTemperature' = ch.before[1]
            /\ pubs' = << >>]_vars

\* C4: a poll whose process exits with a non-zero code, is killed, or cannot
\* be started changes no snapshot field, publishes nothing, logs an error and
\* throws nothing to its caller, whatever the process printed.
C4_FailedPollChangesNothing ==
    [][\A t \in Failures : \A output \in {Unread, Reading} :
         PollChildEndsWith(t, output)
         => /\ snapshot' = snapshot
            /\ published' = published
            /\ pubs' = << >>
            /\ logs' = <<UpdateFailed>>
            /\ UpdateFailed.level = "error"
            /\ thrown' = "none"]_vars

C4_Witness ==
    /\ logs = <<UpdateFailed>>
    /\ pubs = << >>
    /\ thrown = "none"
    /\ currentTemperature = 190
    /\ "CurrentTemperature" \in DOMAIN published
    /\ published["CurrentTemperature"] = 190

\* C5 (as amended): when the pattern matches the end of a poll's output and
\* the matched text decodes, each snapshot field whose key is present is set
\* to parseFloat of the value (the number itself for a number or numeric
\* text, the leading number of a text that starts with one, NaN for null or
\* other text), and each field whose key is absent keeps its value.
Expected(v, old) ==
    IF v = Undefined THEN old
    ELSE IF v.type \in {"number", "string"} THEN v.num
    ELSE NaN

C5_PresentKeysParsedAbsentKept ==
    [][\A output \in Outputs :
         (jsonMatch(output) /\ output.decodes /\ PollChildEndsWith(Exit0, output))
         => /\ currentTemperature' =
                 Expected(output.data.roomTemperature, currentTemperature)
            /\ targetTemperature' =
                 Expected(output.data.targetTemperature, targetTemperature)
            /\ outsideTemperature' =
                 Expected(output.data.outsideTemperature, outsideTemperature)
            /\ dhwTemperature' =
                 Expected(output.data.dhwWaterTemperature, dhwTemperature)
            /\ waterPressure' =
                 Expected(output.data.chWaterPressure, waterPressure)]_vars


C5_Witness ==
    /\ logs = <<UpdatedData>>
    /\ currentTemperature = NaN
    /\ targetTemperature = 210
    /\ outsideTemperature = 0
    /\ dhwTemperature = 550
    /\ waterPressure = 15

\* C5 (as claimed): when a poll's output ends in a JSON object, each snapshot
\* field whose key is present in that object is set exactly to that value,
\* and each field whose key is absent keeps its value.
RECURSIVE OpensAt(_, _, _)
\* the position of the brace that the closing brace at the end of text[1..i]
\* closes (depth counts the braces still to be opened), 0 when there is none
OpensAt(text, i, depth) ==
    IF i = 0 THEN 0
    ELSE IF text[i] = "}" THEN OpensAt(text, i - 1, depth + 1)
    ELSE IF text[i] = "{"
         THEN IF depth = 1 THEN i ELSE OpensAt(text, i - 1, depth - 1)
    ELSE OpensAt(text, i - 1, depth)

RECURSIVE Trimmed(_)
Trimmed(text) ==
    IF text # << >> /\ text[Len(text)] = " "
    THEN Trimmed(SubSeq(text, 1, Len(text) - 1))
    ELSE text

EndsInJSONObject(output) ==
    LET text == Trimmed(output.text) IN
    /\ text # << >>
    /\ text[Len(text)] = "}"
    /\ OpensAt(text, Len(text), 0) # 0
    /\ output.decodes

Exactly(field, v, old) ==
    IF v = Undefined THEN field = old
    ELSE v.num # NaN /\ v.rest = "" /\ field = v.num

C5_PresentKeysSetExactly ==
    [][\A output \in Outputs :
         (EndsInJSONObject(output) /\ PollChildEndsWith(Exit0, output))
         => /\ Exactly(currentTemperature', output.data.roomTemperature,
                       currentTemperature)
            /\ Exactly(targetTemperature', output.data.targetTemperature,
                       targetTemperature)
            /\ Exactly(outsideTemperature', output.data.outsideTemperature,
                       outsideTemperature)
            /\ Exactly(dhwTemperature', output.data.dhwWaterTemperature,
                       dhwTemperature)
            /\ Exactly(waterPressure', output.data.chWaterPressure,
                       waterPressure)]_vars

\* C6: when a poll's process exits 0 but the pattern finds no object at the
\* end of its output, or the matched text does not decode, that poll fails and
\* nothing else: no snapshot field changes, nothing is published, the guard is
\* released, and a timer tick that follows can start a process.
StartsPoll == TimerTick /\ isUpdating' /\ InFlight' = InFlight + 1

ParseFailure == <<ParseFailed, RawOutput, UpdateFailed>>

C6_BadOutputFailsThatPollOnly ==
    /\ [][\A output \in Outputs :
            ((~jsonMatch(output) \/ ~output.decodes)
             /\ PollChildEndsWith(Exit0, output))
            => /\ snapshot' = snapshot
               /\ published' = published
               /\ pubs' = << >>
               /\ logs' = ParseFailure
               /\ thrown' = "none"
               /\ ~isUpdating']_vars
    /\ [](logs = ParseFailure => ENABLED StartsPoll)

C6_Witness ==
    /\ logs = ParseFailure
    /\ ~isUpdating
    /\ PollsInFlight = 0

\* C7: the guard is always released.  When the child of a poll ends, however
\* it ends and whatever parse and publish do, isUpdating is false afterwards;
\* the guard is held only while that child is in flight; so isUpdating, once
\* true, becomes false again, and a timer tick that arrives then starts a
\* new process.
C7_GuardAlwaysReleased ==
    /\ [][PollsInFlight' < PollsInFlight => ~isUpdating']_vars
    /\ [](isUpdating => PollsInFlight = 1)
    /\ (isUpdating ~> ~isUpdating)
    /\ []((phase = "running" /\ ~isUpdating /\ InFlight < MaxChildren)
          => ENABLED StartsPoll)

C7_Witness ==
    /\ phase = "running"
    /\ intervalInstalled
    /\ ~isUpdating
    /\ PollsInFlight = 0
    /\ logs = <<UpdateFailed>>

\* C8: nothing is retried.  A step in which a poll or a set-temperature
\* command fails starts no process and schedules no follow-up; a process is
\* started only by the constructor, a timer callback or a host request; and a
\* follow-up is scheduled only by a set that succeeded.
C8_NothingRetried ==
    /\ [][(Logged(UpdateFailed)' \/ Logged(SetFailed)')
          => (InFlight' <= InFlight /\ followUps' <= followUps)]_vars
    /\ [][InFlight' > InFlight
          => (PollTrigger \/ SetTargetTemperatureRequest)]_vars
    /\ [][followUps' > followUps
          => /\ thrown' = "none"
             /\ pubs' = <<Update("TargetTemperature", targetTemperature')>>]_vars

C8_Witness ==
    /\ logs = <<SetFailed>>
    /\ thrown = SERVICE_COMMUNICATION_FAILURE
    /\ followUps = 0
    /\ children = EmptyBag

\* C9 (as claimed): after a successful poll every snapshot field holds a value
\* taken from that poll's output; none keeps an earlier value.
C9_OverwrittenWholesale ==
    [][\A output \in Outputs :
         (ParseError(output) = "none" /\ PollChildEndsWith(Exit0, output))
         => /\ \A k \in NumericKeys : output.data[k] # Undefined
            /\ output.data.flameStatus # NoValue
            /\ currentTemperature' = parseFloat(output.data.roomTemperature)
            /\ targetTemperature' = parseFloat(output.data.targetTemperature)
            /\ outsideTemperature' = parseFloat(output.data.outsideTemperature)
            /\ dhwTemperature' = parseFloat(output.data.dhwWaterTemperature)
            /\ waterPressure' = parseFloat(output.data.chWaterPressure)]_vars

\* C9 (as amended): a successful poll overwrites only the snapshot fields
\* whose keys are in its output (the flame flag and the heating state only
\* when flameStatus is); every other field keeps the value it had, from an
\* earlier poll, a set or initialisation.  When every key is present, every
\* field is taken from the output.
C9_OnlyPresentKeysOverwritten ==
    [][\A output \in Outputs :
         (ParseError(output) = "none" /\ PollChildEndsWith(Exit0, output))
         => LET data == output.data IN
            /\ currentTemperature' # currentTemperature
                 => data.roomTemperature # Undefined
            /\ targetTemperature' # targetTemperature
                 => data.targetTemperature # Undefined
            /\ outsideTemperature' # outsideTemperature
                 => data.outsideTemperature # Undefined
            /\ dhwTemperature' # dhwTemperature
                 => data.dhwWaterTemperature # Undefined
            /\ waterPressure' # waterPressure
                 => data.chWaterPressure # Undefined
            /\ (flameActive' # flameActive
                \/ currentHeatingCoolingState' # currentHeatingCoolingState)
                 => data.flameStatus # NoValue
            /\ ((\A k \in NumericKeys : data[k] # Undefined)
                /\ data.flameStatus # NoValue)
                 => /\ currentTemperature' = data.roomTemperature.num
                    /\ targetTemperature' = data.targetTemperature.num
                    /\ outsideTemperature' = data.outsideTemperature.num
                    /\ dhwTemperature' = data.dhwWaterTemperature.num
                    /\ waterPressure' = data.chWaterPressure.num
                    /\ flameActive' = (data.flameStatus # "Off")]_vars

C9_Witness ==
    /\ logs = <<UpdatedData>>
    /\ targetTemperature = 185
    /\ currentTemperature = 190
    /\ outsideTemperature = 0
    /\ flameActive

\* C10: with mode 'local' (also when no mode is given) and no host, or with
\* mode 'remote' and no email or no password, the constructor throws: the
\* accessory never runs, no poll is started, no timer is installed and no
\* process is spawned.
MissingRequired ==
    \/ config.mode \in {NoValue, "local"} /\ config.host = NoValue
    \/ config.mode = "remote"
       /\ (config.email = NoValue \/ config.password = NoValue)

C10_InvalidConfigNeverRuns ==
    MissingRequired
    => /\ phase \in {"new", "threw"}
       /\ phase = "threw" => thrown \in {HostRequired, CredentialsRequired}
       /\ children = EmptyBag
       /\ ~isUpdating
       /\ ~intervalInstalled
       /\ followUps = 0
       /\ logs = << >>

C10_Witness ==
    /\ phase = "threw"
    /\ thrown = CredentialsRequired
    /\ config.email # NoValue
    /\ config.password = NoValue

\* C11 (as claimed): pollInterval is in seconds with default 60.  For a
\* configured pollInterval of N the timer that triggers polls has a period of
\* 1000 * N milliseconds, and with none configured a period of 60 seconds.
ConfiguredSeconds ==
    IF config.pollInterval = Null THEN 60 ELSE config.pollInterval[1]

C11_PollIntervalInSeconds ==
    intervalInstalled => intervalDelay = 1000 * ConfiguredSeconds

\* C12 (as claimed): when a set-temperature command has succeeded while a
\* poll was in flight and that poll then completes, the snapshot target
\* temperature and the published target temperature still equal the value
\* that was set.
SetJustSucceeded ==
    /\ pubs = <<Update("TargetTemperature", targetTemperature)>>
    /\ logs = << >>
    /\ thrown = "none"

C12_SetSurvivesPollInFlight ==
    [][(SetJustSucceeded /\ PollsInFlight = 1 /\ PollsInFlight' = 0)
       => /\ targetTemperature' = targetTemperature
          /\ published'["TargetTemperature"] = targetTemperature]_vars

\* C13: a set-temperature request is never dropped by the guard.  A request
\* can be made whether or not a poll is in flight; every request spawns exactly
\* one command, which carries '-t <value>'; and when that command ends the
\* request ends in exactly one of two ways: the snapshot target temperature
\* is the requested value and that value is published, with no fault, or the
\* communication fault is raised and nothing is published.
CarriesTemperature(args, t) ==
    \E i \in 1..(Len(args) - 1) : args[i] = "-t" /\ args[i + 1] = ToString(t)

SetApplied(t) ==
    /\ targetTemperature' = t
    /\ pubs' = <<Update("TargetTemperature", t)>>
    /\ published'["TargetTemperature"] = t
    /\ thrown' = "none"

SetFaulted ==
    /\ thrown' = SERVICE_COMMUNICATION_FAILURE
    /\ pubs' = << >>
    /\ published' = published

C13_SetRequestNeverDropped ==
    /\ []((phase = "running" /\ SetsInFlight + followUps < MaxPending
           /\ InFlight < MaxChildren)
          => ENABLED SetTargetTemperatureRequest)
    /\ [][SetTargetTemperatureRequest
          => \E ch \in BagToSet(children') :
               /\ children' = children (+) SetToBag({ch})
               /\ ch.awaiter = "setTargetTemperature"
               /\ ch.temperature # Null
               /\ ch.temperature[1] \in SetTemps
               /\ CarriesTemperature(ch.args, ch.temperature[1])]_vars
    /\ [][\A ch \in SetChildren : \A t \in Terminations :
            SetChildEndsWith(ch, t)
            => /\ InFlight' = InFlight - 1
               /\ SetApplied(ch.temperature[1]) \/ SetFaulted
               /\ ~(SetApplied(ch.temperature[1]) /\ SetFaulted)]_vars

C13_Witness ==
    /\ isUpdating
    /\ PollsInFlight = 1
    /\ SetsInFlight = 1
    /\ logs = <<SettingTemperature, Executing>>

\* C14: after a successful poll whose object has flameStatus, the current
\* heating state is HEAT when flameStatus is not 'Off' or when the snapshot
\* current temperature (after this poll) is below the target temperature
\* minus 0.5, and OFF otherwise; when flameStatus is absent the heating state
\* and the flame flag are unchanged; and the current heating state is OFF or
\* HEAT in every state.
Heating(flameStatus, current, target) ==
    \/ flameStatus # "Off"
    \/ current # NaN /\ target # NaN /\ current < target - 5

C14_HeatingStateFromFlameOrDeficit ==
    /\ [][\A output \in Outputs :
            (ParseError(output) = "none" /\ PollChildEndsWith(Exit0, output))
            => IF output.data.flameStatus # NoValue
               THEN /\ flameActive' = (output.data.flameStatus # "Off")
                    /\ currentHeatingCoolingState' =
                         IF Heating(output.data.flameStatus, currentTemperature',
                                    targetTemperature')
                         THEN CurrentHEAT ELSE CurrentOFF
               ELSE /\ flameActive' = flameActive
                    /\ currentHeatingCoolingState' = currentHeatingCoolingState]_vars
    /\ [](currentHeatingCoolingState \in {CurrentOFF, CurrentHEAT})

C14_Witness ==
    /\ logs = <<UpdatedData>>
    /\ ~flameActive
    /\ currentHeatingCoolingState = CurrentHEAT
    /\ currentTemperature = 190
    /\ targetTemperature = 210

\* C15: after a successful set-temperature command the snapshot target
\* temperature is the requested value, that value is published, and exactly
\* one follow-up is scheduled; follow-ups are scheduled by nothing else; every
\* follow-up that is pending fires, and when it fires it invokes
\* updateATAGData once, under the same guard as any other trigger: it is
\* skipped while a poll is in flight and starts a poll otherwise.
C15_SetSchedulesOneFollowUp ==
    /\ [][\A ch \in SetChildren :
            SetChildEndsWith(ch, Exit0)
            => /\ targetTemperature' = ch.temperature[1]
               /\ pubs' = <<Update("TargetTemperature", ch.temperature[1])>>
               /\ published'["TargetTemperature"] = ch.temperature[1]
               /\ followUps' = followUps + 1]_vars
    /\ [][followUps' > followUps
          => /\ followUps' = followUps + 1
             /\ SetsInFlight' = SetsInFlight - 1
             /\ pubs' = <<Update("TargetTemperature", targetTemperature')>>]_vars
    /\ [][followUps' < followUps
          => /\ followUps' = followUps - 1
             /\ snapshot' = snapshot
             /\ IF isUpdating
                THEN /\ logs' = <<Skipping>>
                     /\ children' = children
                     /\ isUpdating'
                ELSE /\ logs' = <<Executing>>
                     /\ PollsInFlight' = PollsInFlight + 1
                     /\ InFlight' = InFlight + 1
                     /\ isUpdating']_vars
    /\ ([]<>(followUps = 0) \/ []<><<FollowUpFires>>_vars)

C15_Witness ==
    /\ followUps = 0
    /\ targetTemperature = 185
    /\ "TargetTemperature" \in DOMAIN published
    /\ published["TargetTemperature"] = 185
    /\ isUpdating
    /\ logs = <<Executing>>

\* C16: published state tracks the snapshot.  In every state (each is between
\* two handlers), once something has been published, the last published
\* CurrentTemperature, TargetTemperature and CurrentHeatingCoolingState equal
\* the snapshot's current temperature, target temperature and heating state;
\* and a characteristic of an optional sensor has been published only when
\* the configuration enables that sensor's service.
Tracks(c, v) == c \in DOMAIN published => published[c] = v

C16_PublishedTracksSnapshot ==
    /\ Tracks("CurrentTemperature", currentTemperature)
    /\ Tracks("TargetTemperature", targetTemperature)
    /\ Tracks("CurrentHeatingCoolingState", currentHeatingCoolingState)
    /\ "CurrentTemperature" \in DOMAIN published
         => {"TargetTemperature", "CurrentHeatingCoolingState"}
              \subseteq DOMAIN published
    /\ "outside.CurrentTemperature" \in DOMAIN published
         => config.exposeOutsideTemperature
    /\ "pressure.LeakDetected" \in DOMAIN published
         => config.exposeWaterPressure
    /\ "dhw.CurrentTemperature" \in DOMAIN published
         => config.exposeDHWTemperature

C16_Witness ==
    /\ DOMAIN published = Characteristics
    /\ published["CurrentTemperature"] = 190
    /\ published["TargetTemperature"] = 185
    /\ published["CurrentHeatingCoolingState"] = CurrentHEAT
    /\ pubs = <<Update("TargetTemperature", 185)>>

\* C17 (as claimed): the leak sensor alerts only on low water pressure read
\* from the device.  While no poll has reported a water pressure (here: while
\* no poll has succeeded, so that nothing but a set's target has been
\* published) it reports LEAK_NOT_DETECTED; and after a successful poll that
\* reports a water pressure it reports LEAK_DETECTED exactly when that
\* pressure is below 1.0 bar.
NoPollSucceeded == "CurrentTemperature" \notin DOMAIN published

C17_LeakOnlyOnLowPressure ==
    /\ []((phase = "running" /\ config.exposeWaterPressure /\ NoPollSucceeded)
          => LeakDetected = LEAK_NOT_DETECTED)
    /\ [][\A output \in Outputs :
            (/\ config.exposeWaterPressure
             /\ ParseError(output) = "none"
             /\ output.data.chWaterPressure # Undefined
             /\ PollChildEndsWith(Exit0, output))
            => LET reported == output.data.chWaterPressure.num
                   alert == IF reported # NaN /\ reported < 10
                            THEN LEAK_DETECTED ELSE LEAK_NOT_DETECTED
               IN /\ LeakDetected' = alert
                  /\ published'["pressure.LeakDetected"] = alert]_vars

\* C18 (as claimed): once construction has succeeded, every spawned command
\* carries defined, non-empty credentials for its mode: '-d' followed by a
\* host, or '-r -e <email> -p <password>'; and it carries '-t <value>'
\* exactly when it is a set-temperature command.
Defined(text) == text # ArgText(NoValue) /\ text # ""

LocalCredentials(args) ==
    \E i \in 1..(Len(args) - 1) : args[i] = "-d" /\ Defined(args[i + 1])

RemoteCredentials(args) ==
    \E i \in 1..(Len(args) - 4) :
        /\ args[i] = "-r"
        /\ args[i + 1] = "-e" /\ Defined(args[i + 2])
        /\ args[i + 3] = "-p" /\ Defined(args[i + 4])

C18_CommandsCarryCredentials ==
    phase = "running"
    => \A ch \in BagToSet(children) :
         /\ LocalCredentials(ch.args) \/ RemoteCredentials(ch.args)
         /\ IF ch.awaiter = "setTargetTemperature"
            THEN CarriesTemperature(ch.args, ch.temperature[1])
            ELSE \A i \in 1..Len(ch.args) : ch.args[i] # "-t"

====
